---- MODULE Spec2Model ----
(***************************************************************************)
(* Model of postgres_mcp: the process entry point (server.main), the       *)
(* shutdown coroutine (server.shutdown), the driver factory                *)
(* (server.get_sql_driver), the six registered tools and the lazy metadata *)
(* cache (context.get_from_context).                                       *)
(*                                                                         *)
(* The program is a single asyncio event loop.  A coroutine runs without   *)
(* interruption from one suspension point to the next, so every action     *)
(* below is one such uninterrupted segment: from a task's start (or from   *)
(* the reply it was suspended on) to its next await of the database, of    *)
(* the transport or of asyncio.gather.                                     *)
(***************************************************************************)
EXTENDS Integers, Sequences, FiniteSets, TLC

\* ------------------------------------------------------------------ bounds
\* Tool-call tasks that may be in flight at the same time.
MaxOps == 2
\* Requests the transport delivers in one run of the process.
MaxDispatch == 3
\* Termination signals delivered in one run of the process.
MaxSignals == 2

OpIds == 1..MaxOps
SigIds == 1..MaxSignals

\* --------------------------------------------------------------- constants
UNRESTRICTED == "unrestricted"
RESTRICTED == "restricted"
AccessMode == {UNRESTRICTED, RESTRICTED}

\* choices=[mode.value for mode in AccessMode]: the strings --access-mode
\* accepts (its default is AccessMode.UNRESTRICTED.value).
AccessModeChoices == {"unrestricted", "restricted"}

\* AccessMode(value): the member whose value is the string.
AccessModeOf(value) == IF value = "restricted" THEN RESTRICTED ELSE UNRESTRICTED

\* args before parser.parse_args() has run.
NotParsed == ""

PG_STAT_STATEMENTS == "pg_stat_statements"
HYPOPG_EXTENSION == "hypopg"

\* timeout=30 handed to SafeSqlDriver
SafeTimeout == 30
\* "Analyze a list of (up to 10) SQL queries"
MAX_NUM_DTA_QUERIES_LIMIT == 10

\* The keys of the dict PG_METADATA_QUERIES; each maps to one query string.
PG_METADATA_QUERIES == [k \in {"version", "extensions"} |->
                          IF k = "version" THEN "SELECT version() as version"
                          ELSE "SELECT e.extname as name, e.extversion as version FROM pg_extension e"]

\* Keys callers pass to get_from_context: the two with a query, the third
\* one the docstring names, and one nobody names.
KeyInputs == {"version", "extensions", "settings", "unknown-key"}

\* Tasks callers pass to get_analysis_plan: the one it knows, the same words
\* in another case, and another task.
TaskInputs == {"slow queries", "Slow Queries", "vacuum"}
\* Lengths of the list analyze_queries is given: empty, one, the limit, one
\* over the limit.
NumQueriesInputs == {0, 1, MAX_NUM_DTA_QUERIES_LIMIT, MAX_NUM_DTA_QUERIES_LIMIT + 1}

\* ------------------------------------------------------------------ values
\* Python values held by the cache and returned by get_from_context.
None == [tag |-> "None", cells |-> <<>>]
ListOf(rows) == [tag |-> "list", cells |-> rows]

\* Python truthiness of such a value (if x: / not x): None and the empty
\* list are falsy.
Falsy(value) == value.tag = "None" \/ Len(value.cells) = 0

\* What a caller passes as hypothetical_indexes: nothing (the default None),
\* an empty list, or a list of index descriptions.
HypotheticalIndexInputs ==
  {None, ListOf(<<>>), ListOf(<<[table |-> "users", columns |-> <<"email">>]>>)}

\* Row lists the database may answer a metadata query with (row.cells of
\* every row); <<>> is the answer with no rows.
MetadataRows(key) ==
  IF key = "version"
    THEN {<<>>, <<[version |-> "PostgreSQL 16.2"]>>}
    ELSE {<<>>,
          <<[name |-> PG_STAT_STATEMENTS, version |-> "1.10"]>>,
          <<[name |-> HYPOPG_EXTENSION, version |-> "1.4"]>>}

\* The message of the exception a failed database operation raises.
DbErrorMessage == "database operation failed"

\* ---------------------------------------------------------------- responses
\* format_text_response: a one-element list of TextContent whose text is
\* str(text); a text is modelled as the sequence of its pieces.
format_text_response(text) == <<[type |-> "text", text |-> text]>>

\* format_error_response: the text "Error: " followed by the error.
format_error_response(error) == format_text_response(<<"Error: ">> \o error)

NoResponse == <<>>

\* Whether a response is a text that begins with the error marker.
IsErrorResponse(resp) ==
  /\ Len(resp) = 1
  /\ resp[1].type = "text"
  /\ Len(resp[1].text) >= 1
  /\ resp[1].text[1] = "Error: "

\* ------------------------------------------------------------------- state
VARIABLES
  mainPc,               \* where the main() coroutine is
  current_access_mode,  \* the global of server.py
  args_access_mode,     \* args.access_mode, the --access-mode flag as parsed
  pool,                 \* db_connection: "Disconnected", "Connected", "Closed"
  releases,             \* times the live pool was released
  closeCalls,           \* times db_connection.close() was awaited
  connectCalls,         \* times db_connection.pool_connect() was awaited
  handlersInstalled,    \* whether loop.add_signal_handler succeeded
  sh,                   \* the invocations of shutdown(): 0 is the one of
                        \* main's finally, s >= 1 the task of signal s
  ops,                  \* the tool-call tasks
  dispatched,           \* requests delivered so far
  cache,                \* ctx.request_context.lifespan_context
  queries,              \* metadata queries sent, per key
  handles,              \* every driver get_sql_driver returned, in order
  last                  \* the outcome of the tool call that finished last

vars == <<mainPc, current_access_mode, args_access_mode, pool, releases,
          closeCalls, connectCalls, handlersInstalled, sh, ops, dispatched,
          cache, queries, handles, last>>

\* The callers of shutdown(): main's finally block (0) and one task per
\* delivered signal.
FinallyCall == 0
Callers == {FinallyCall} \cup SigIds

\* Task names, as asyncio.all_tasks() lists them.
MainTask == [kind |-> "main", id |-> 0]
OpTask(i) == [kind |-> "op", id |-> i]
SdTask(s) == [kind |-> "shutdown", id |-> s]

\* The task that runs invocation c of shutdown().
TaskOf(c) == IF c = FinallyCall THEN MainTask ELSE SdTask(c)

\* The local sql_driver of a coroutine that has not made one.
NoDriver == [class |-> "", timeout |-> 0, conn |-> ""]

IdleOp == [pc |-> "idle", tool |-> "", key |-> "", task |-> "",
           analyze |-> FALSE, hypo |-> None, nq |-> 0, sql_driver |-> NoDriver]

NoLast == [tool |-> "", key |-> "", task |-> "", analyze |-> FALSE,
           hypo |-> None, nq |-> 0, path |-> "", failure |-> FALSE,
           kind |-> "none", value |-> None, resp |-> NoResponse]

NoShutdown == [pc |-> "none", waits |-> {}, pending |-> {}]

Init ==
  /\ mainPc = "parse"
  /\ current_access_mode = UNRESTRICTED
  /\ args_access_mode = NotParsed
  /\ pool = "Disconnected"
  /\ releases = 0
  /\ closeCalls = 0
  /\ connectCalls = 0
  /\ handlersInstalled = FALSE
  /\ sh = [c \in Callers |-> NoShutdown]
  /\ ops = [i \in OpIds |-> IdleOp]
  /\ dispatched = 0
  /\ cache = [k \in {} |-> None]
  /\ queries = [k \in DOMAIN PG_METADATA_QUERIES |-> 0]
  /\ handles = <<>>
  /\ last = NoLast

\* The process has not exited: asyncio.run(main()) returns when main does.
Alive == mainPc # "done"

\* Tool-call tasks that have not finished.
InFlight == {i \in OpIds : ops[i].pc # "idle"}

\* asyncio.all_tasks(): every task of the loop that is not done.
AllTasks ==
  (IF mainPc # "done" THEN {MainTask} ELSE {})
    \cup {OpTask(i) : i \in InFlight}
    \cup {SdTask(s) : s \in {x \in SigIds : sh[x].pc \in {"close", "snapshot", "gather"}}}

\* ------------------------------------------------------------------- main()
\* main() as it would be if it parsed the flag and left the global alone.
MainParse_KeepsDefault ==
  /\ mainPc = "parse"
  /\ \E flag \in AccessModeChoices : args_access_mode' = flag
  /\ mainPc' = "connect"
  /\ UNCHANGED <<current_access_mode, pool, releases, closeCalls,
                 connectCalls, handlersInstalled, sh, ops, dispatched, cache,
                 queries, handles, last>>

\* args = parser.parse_args(); current_access_mode = AccessMode(args.access_mode)
MainParse ==
  /\ mainPc = "parse"
  /\ \E flag \in AccessModeChoices :
       /\ args_access_mode' = flag
       /\ current_access_mode' = AccessModeOf(flag)
  /\ mainPc' = "connect"
  /\ UNCHANGED <<pool, releases, closeCalls, connectCalls, handlersInstalled,
                 sh, ops, dispatched, cache, queries, handles, last>>

\* DbConnPool.pool_connect: establishes the pool or raises.
pool_connect(p, reachable) == IF reachable THEN "Connected" ELSE p

\* main() as it would be if it tried again after a failed pool_connect.
MainConnect_Retrying ==
  /\ mainPc = "connect"
  /\ \E reachable \in BOOLEAN :
       /\ pool' = pool_connect(pool, reachable)
       /\ mainPc' = IF reachable THEN "signals" ELSE "connect"
  /\ connectCalls' = connectCalls + 1
  /\ UNCHANGED <<current_access_mode, args_access_mode, releases, closeCalls,
                 handlersInstalled, sh, ops, dispatched, cache, queries,
                 handles, last>>

\* try: await db_connection.pool_connect(database_url) except Exception: print
MainConnect ==
  /\ mainPc = "connect"
  /\ \E reachable \in BOOLEAN : pool' = pool_connect(pool, reachable)
  /\ connectCalls' = connectCalls + 1
  /\ mainPc' = "signals"
  /\ UNCHANGED <<current_access_mode, args_access_mode, releases, closeCalls,
                 handlersInstalled, sh, ops, dispatched, cache, queries,
                 handles, last>>

\* loop.add_signal_handler for SIGTERM and SIGINT, or NotImplementedError
\* where the platform has no signal support; then mcp.run_stdio_async().
MainSignals ==
  /\ mainPc = "signals"
  /\ \E supported \in BOOLEAN : handlersInstalled' = supported
  /\ mainPc' = "serving"
  /\ UNCHANGED <<current_access_mode, args_access_mode, pool, releases,
                 closeCalls, connectCalls, sh, ops, dispatched, cache,
                 queries, handles, last>>

\* mcp.run_stdio_async() returns or raises and the finally block calls
\* shutdown().  The transport is not part of this code: whether it lets its
\* request handlers finish before it returns is left open, so the model
\* lets it return with tool calls still in flight.
ServeEnd ==
  /\ mainPc = "serving"
  /\ mainPc' = "shutdown"
  /\ sh' = [sh EXCEPT ![FinallyCall] = [pc |-> "close", waits |-> {},
                                        pending |-> {OpTask(i) : i \in InFlight}]]
  /\ UNCHANGED <<current_access_mode, args_access_mode, pool, releases,
                 closeCalls, connectCalls, handlersInstalled, ops, dispatched,
                 cache, queries, handles, last>>

\* A SIGTERM or SIGINT arrives: the handler does
\* asyncio.create_task(shutdown(s)).
Signal(s) ==
  /\ Alive
  /\ handlersInstalled
  /\ sh[s].pc = "none"
  /\ \A x \in SigIds : x < s => sh[x].pc # "none"
  /\ sh' = [sh EXCEPT ![s] = [pc |-> "close", waits |-> {},
                              pending |-> {OpTask(i) : i \in InFlight}]]
  /\ UNCHANGED <<mainPc, current_access_mode, args_access_mode, pool,
                 releases, closeCalls, connectCalls, handlersInstalled, ops,
                 dispatched, cache, queries, handles, last>>

\* --------------------------------------------------------------- shutdown()
\* DbConnPool.close: releases the pool when one is live, otherwise nothing.
pool_close(p) == IF p = "Connected" THEN "Closed" ELSE p

\* A task that finishes leaves every gather that waits for it, and is no
\* longer one of the operations a shutdown found in flight.
Leave(task, c) == [sh[c] EXCEPT !.waits = @ \ {task}, !.pending = @ \ {task}]

\* main() returns when the shutdown() of its finally block does.
AfterReturn(c) == IF c = FinallyCall THEN "done" ELSE mainPc

\* shutdown() as it would be if only a signal closed the pool
\* (if sig: await db_connection.close()).
ShutdownClose_OnlyOnSignal(c) ==
  /\ Alive
  /\ sh[c].pc = "close"
  /\ pool' = IF c # FinallyCall THEN pool_close(pool) ELSE pool
  /\ releases' = IF c # FinallyCall /\ pool = "Connected" THEN releases + 1 ELSE releases
  /\ closeCalls' = IF c # FinallyCall THEN closeCalls + 1 ELSE closeCalls
  /\ sh' = [sh EXCEPT ![c].pc = "snapshot"]
  /\ UNCHANGED <<mainPc, current_access_mode, args_access_mode,
                 connectCalls, handlersInstalled, ops, dispatched, cache,
                 queries, handles, last>>

\* logger.info("Closing database connections..."); await db_connection.close()
ShutdownClose(c) ==
  /\ Alive
  /\ sh[c].pc = "close"
  /\ pool' = pool_close(pool)
  /\ releases' = IF pool = "Connected" THEN releases + 1 ELSE releases
  /\ closeCalls' = closeCalls + 1
  /\ sh' = [sh EXCEPT ![c].pc = "snapshot"]
  /\ UNCHANGED <<mainPc, current_access_mode, args_access_mode,
                 connectCalls, handlersInstalled, ops, dispatched, cache,
                 queries, handles, last>>

\* tasks = [t for t in asyncio.all_tasks() if t is not asyncio.current_task()]
\* if tasks: await asyncio.gather(*tasks, return_exceptions=True)
ShutdownSnapshot(c) ==
  /\ Alive
  /\ sh[c].pc = "snapshot"
  /\ LET tasks == AllTasks \ {TaskOf(c)} IN
       IF tasks = {}
         THEN /\ sh' = [x \in Callers |->
                        IF x = c THEN [sh[x] EXCEPT !.pc = "done"]
                        ELSE Leave(TaskOf(c), x)]
              /\ mainPc' = AfterReturn(c)
         ELSE /\ sh' = [sh EXCEPT ![c].pc = "gather", ![c].waits = tasks]
              /\ UNCHANGED mainPc
  /\ UNCHANGED <<current_access_mode, args_access_mode, pool, releases,
                 closeCalls, connectCalls, handlersInstalled, ops, dispatched,
                 cache, queries, handles, last>>

\* The gather returns once every task it was given is done; then
\* logger.info("Shutdown complete.") and shutdown() returns.
ShutdownGatherReturn(c) ==
  /\ Alive
  /\ sh[c].pc = "gather"
  /\ sh[c].waits = {}
  /\ sh' = [x \in Callers |->
              IF x = c THEN [sh[x] EXCEPT !.pc = "done"]
              ELSE Leave(TaskOf(c), x)]
  /\ mainPc' = AfterReturn(c)
  /\ UNCHANGED <<current_access_mode, args_access_mode, pool, releases,
                 closeCalls, connectCalls, handlersInstalled, ops, dispatched,
                 cache, queries, handles, last>>

\* asyncio.run: once main() has returned, every task still pending is
\* cancelled; the CancelledError is no Exception, so shutdown() lets it out.
ExitCancel(s) ==
  /\ mainPc = "done"
  /\ sh[s].pc \in {"close", "snapshot", "gather"}
  /\ sh' = [sh EXCEPT ![s].pc = "cancelled"]
  /\ UNCHANGED <<mainPc, current_access_mode, args_access_mode, pool,
                 releases, closeCalls, connectCalls, handlersInstalled, ops,
                 dispatched, cache, queries, handles, last>>

\* ---------------------------------------------------------- get_sql_driver
\* get_sql_driver as it would be without the test of the access mode.
get_sql_driver_Unwrapped(mode) ==
  [class |-> "SqlDriver", timeout |-> 0, conn |-> "db_connection"]

\* base_driver = SqlDriver(conn=db_connection); in RESTRICTED mode it is
\* wrapped in SafeSqlDriver(sql_driver=base_driver, timeout=30).
get_sql_driver(mode) ==
  IF mode = RESTRICTED
    THEN [class |-> "SafeSqlDriver", timeout |-> SafeTimeout, conn |-> "db_connection"]
    ELSE [class |-> "SqlDriver", timeout |-> 0, conn |-> "db_connection"]

\* ------------------------------------------------------------ tool plumbing
\* A request may start in slot i: the server is serving, the slot is the
\* first free one and the transport has requests left.
CanStart(i) ==
  /\ mainPc = "serving"
  /\ ops[i].pc = "idle"
  /\ \A j \in OpIds : j < i => ops[j].pc # "idle"
  /\ dispatched < MaxDispatch

\* What a database round trip can answer: anything while the pool is
\* connected, only a failure when it never was or has been closed.
Replies(all) == IF pool = "Connected" THEN all ELSE {"fail"}

Outcome(op, path, failure, kind, value, resp) ==
  [tool |-> op.tool, key |-> op.key, task |-> op.task, analyze |-> op.analyze,
   hypo |-> op.hypo, nq |-> op.nq, path |-> path, failure |-> failure,
   kind |-> kind, value |-> value, resp |-> resp]

\* The coroutine of slot i ends with outcome o (a return or a raise).
Finish(i, o) ==
  /\ ops' = [ops EXCEPT ![i] = IdleOp]
  /\ last' = o
  /\ sh' = [c \in Callers |-> Leave(OpTask(i), c)]

\* The coroutine of slot i suspends on a database round trip.
Suspend(i, op, at) ==
  /\ ops' = [ops EXCEPT ![i] = [op EXCEPT !.pc = at]]
  /\ UNCHANGED <<last, sh>>

\* sql_driver = await get_sql_driver(), then the first round trip.
WithDriver(i, op, at) ==
  LET d == get_sql_driver(current_access_mode)
  IN /\ handles' = Append(handles, d)
     /\ Suspend(i, [op EXCEPT !.sql_driver = d], at)

\* ------------------------------------------------------- get_from_context
\* get_from_context as it would be without the test of the cache.
ContextPath_NoCacheTest(c, key) ==
  IF key \notin DOMAIN PG_METADATA_QUERIES THEN "raise" ELSE "miss"

\* get_from_context as it would be with the cache tested first.
ContextPath_CacheFirst(c, key) ==
  IF key \in DOMAIN c THEN "hit"
  ELSE IF key \notin DOMAIN PG_METADATA_QUERIES THEN "raise"
  ELSE "miss"

\* The two tests get_from_context makes before it touches the database.
ContextPath(c, key) ==
  IF key \notin DOMAIN PG_METADATA_QUERIES THEN "raise"
  ELSE IF key \in DOMAIN c THEN "hit"
  ELSE "miss"

\* ctx.request_context.lifespan_context[key] = value
CacheStore(c, key, value) ==
  [k \in DOMAIN c \cup {key} |-> IF k = key THEN value ELSE c[k]]

\* value = [row.cells for row in rows] if rows else None
RowsValue(rows) == IF rows # <<>> THEN ListOf(rows) ELSE None

UnknownKeyError(key) == <<"Unknown context key: ", key>>

\* sql_driver = await get_sql_driver()
\* rows = await sql_driver.execute_query(PG_METADATA_QUERIES[key])
FetchStart(i, op) ==
  /\ WithDriver(i, op, "await_query")
  /\ queries' = [queries EXCEPT ![op.key] = @ + 1]
  /\ UNCHANGED cache

\* A direct call get_from_context(ctx, key).
Call_get_from_context(i, key) ==
  /\ CanStart(i)
  /\ dispatched' = dispatched + 1
  /\ LET op == [IdleOp EXCEPT !.tool = "get_from_context", !.key = key]
         path == ContextPath(cache, key)
     IN CASE path = "raise" ->
               /\ Finish(i, Outcome(op, path, FALSE, "raise", None,
                                    format_text_response(UnknownKeyError(key))))
               /\ UNCHANGED <<cache, queries, handles>>
          [] path = "hit" ->
               /\ Finish(i, Outcome(op, path, FALSE, "return", cache[key], NoResponse))
               /\ UNCHANGED <<cache, queries, handles>>
          [] path = "miss" -> FetchStart(i, op)
  /\ UNCHANGED <<mainPc, current_access_mode, args_access_mode, pool,
                 releases, closeCalls, connectCalls, handlersInstalled>>

\* ------------------------------------------------------- get_analysis_plan
\* "pg_stat_statements" in installed_extensions compares a str with each
\* element of the list, and the elements are dicts (row.cells): a str never
\* equals a dict.
StrEqualsCells(name, cells) == FALSE

NameIn(name, value) ==
  \E n \in 1..Len(value.cells) : StrEqualsCells(name, value.cells[n])

InstallStep == "Install the pg_stat_statements extension.  It is not installed."
SlowestStep == "Get the slowest queries by mean time"
BlocksStep == "Include analysis of shared and local blocks hit ratios"

\* The plan for task "slow queries", given the extensions metadata.
SlowQueriesPlan(installed_extensions) ==
  (IF Falsy(installed_extensions) \/ ~NameIn(PG_STAT_STATEMENTS, installed_extensions)
     THEN <<InstallStep>> ELSE <<>>) \o <<SlowestStep, BlocksStep>>

\* if plan: format_text_response(numbered list) else: format_error_response
PlanResponse(task, plan) ==
  IF plan # <<>>
    THEN format_text_response(<<"Follow this plan step by step:">> \o plan)
    ELSE format_error_response(<<"'", task, "' is not supported by this tool">>)

\* get_analysis_plan as it would be if it planned for every task.
TaskSupported_Always(task) == TRUE

\* if task == "slow queries":
TaskSupported(task) == task = "slow queries"

Call_get_analysis_plan(i, task) ==
  /\ CanStart(i)
  /\ dispatched' = dispatched + 1
  /\ LET op == [IdleOp EXCEPT !.tool = "get_analysis_plan", !.task = task,
                              !.key = IF TaskSupported(task) THEN "extensions" ELSE ""]
         path == ContextPath(cache, "extensions")
     IN IF TaskSupported(task)
          THEN CASE path = "raise" ->
                      /\ Finish(i, Outcome(op, path, FALSE, "raise", None,
                                           format_text_response(UnknownKeyError("extensions"))))
                      /\ UNCHANGED <<cache, queries, handles>>
                 [] path = "hit" ->
                      /\ Finish(i, Outcome(op, path, FALSE, "return", cache["extensions"],
                                           PlanResponse(task, SlowQueriesPlan(cache["extensions"]))))
                      /\ UNCHANGED <<cache, queries, handles>>
                 [] path = "miss" -> FetchStart(i, op)
          ELSE /\ Finish(i, Outcome(op, "unsupported", FALSE, "return", None,
                                    PlanResponse(task, <<>>)))
               /\ UNCHANGED <<cache, queries, handles>>
  /\ UNCHANGED <<mainPc, current_access_mode, args_access_mode, pool,
                 releases, closeCalls, connectCalls, handlersInstalled>>

\* The reply step as it would be if the except branch stored its None.
Reply_metadata_CachesFailure(i) ==
  /\ Alive
  /\ ops[i].pc = "await_query"
  /\ \E reply \in Replies({"rows", "fail"}) :
       \E rows \in (IF reply = "rows" THEN MetadataRows(ops[i].key) ELSE {<<>>}) :
         LET op == ops[i]
             value == IF reply = "rows" THEN RowsValue(rows) ELSE None
             resp == IF op.tool = "get_analysis_plan"
                       THEN PlanResponse(op.task, SlowQueriesPlan(value))
                       ELSE NoResponse
         IN /\ cache' = CacheStore(cache, op.key, value)
            /\ Finish(i, Outcome(op, "miss", reply = "fail", "return", value, resp))
  /\ UNCHANGED <<mainPc, current_access_mode, args_access_mode, pool,
                 releases, closeCalls, connectCalls, handlersInstalled,
                 dispatched, queries, handles>>

\* The reply to the metadata query of slot i: rows, or an exception.  On
\* rows the value is stored and returned; on an exception get_from_context
\* logs it and returns None.  get_analysis_plan goes on with the value.
Reply_metadata(i) ==
  /\ Alive
  /\ ops[i].pc = "await_query"
  /\ \E reply \in Replies({"rows", "fail"}) :
       \E rows \in (IF reply = "rows" THEN MetadataRows(ops[i].key) ELSE {<<>>}) :
         LET op == ops[i]
             value == IF reply = "rows" THEN RowsValue(rows) ELSE None
             resp == IF op.tool = "get_analysis_plan"
                       THEN PlanResponse(op.task, SlowQueriesPlan(value))
                       ELSE NoResponse
         IN /\ cache' = IF reply = "rows" THEN CacheStore(cache, op.key, value) ELSE cache
            /\ Finish(i, Outcome(op, "miss", reply = "fail", "return", value, resp))
  /\ UNCHANGED <<mainPc, current_access_mode, args_access_mode, pool,
                 releases, closeCalls, connectCalls, handlersInstalled,
                 dispatched, queries, handles>>

\* ----------------------------------------------------------- the SQL tools
\* The first lines of every tool that uses the database.
ToolStart(i, op, at) ==
  /\ WithDriver(i, op, at)
  /\ UNCHANGED <<cache, queries>>

\* except Exception as e: return format_error_response(str(e))
Caught == format_error_response(<<DbErrorMessage>>)

\* query(sql)
Call_query(i) ==
  /\ CanStart(i)
  /\ dispatched' = dispatched + 1
  /\ ToolStart(i, [IdleOp EXCEPT !.tool = "query"], "await_execute")
  /\ UNCHANGED <<mainPc, current_access_mode, args_access_mode, pool,
                 releases, closeCalls, connectCalls, handlersInstalled>>

\* rows is None -> "No results"; otherwise the list of cells; an exception
\* is caught and formatted.
Reply_query(i) ==
  /\ Alive
  /\ ops[i].pc = "await_execute"
  /\ \E reply \in Replies({"rows", "none", "fail"}) :
       Finish(i, Outcome(ops[i], "reply", reply = "fail", "return", None,
                         CASE reply = "rows" -> format_text_response(<<"[cells]">>)
                           [] reply = "none" -> format_text_response(<<"No results">>)
                           [] reply = "fail" -> Caught))
  /\ UNCHANGED <<mainPc, current_access_mode, args_access_mode, pool,
                 releases, closeCalls, connectCalls, handlersInstalled,
                 dispatched, cache, queries, handles>>

\* explain_query as it would be without the test of analyze under
\* hypothetical indexes.
ExplainRoute_NoRefusal(analyze, hypothetical_indexes) ==
  IF ~Falsy(hypothetical_indexes) THEN "await_hypopg" ELSE "await_explain"

\* The branch explain_query takes: with hypothetical indexes, a refusal
\* when analyze is set and the hypopg check otherwise; without them,
\* explain_analyze or explain (op.analyze tells which).
ExplainRoute(analyze, hypothetical_indexes) ==
  IF ~Falsy(hypothetical_indexes)
    THEN IF analyze THEN "refuse" ELSE "await_hypopg"
    ELSE "await_explain"

RefusalText == "Cannot use analyze and hypothetical indexes together"

\* explain_query(sql, analyze, hypothetical_indexes): the driver is made
\* first, then the branch is taken.
Call_explain_query(i, analyze, hypo) ==
  /\ CanStart(i)
  /\ dispatched' = dispatched + 1
  /\ LET op == [IdleOp EXCEPT !.tool = "explain_query", !.analyze = analyze,
                              !.hypo = hypo]
         route == ExplainRoute(analyze, hypo)
     IN IF route = "refuse"
          THEN /\ handles' = Append(handles, get_sql_driver(current_access_mode))
               /\ Finish(i, Outcome(op, "validation", FALSE, "return", None,
                                    format_error_response(<<RefusalText>>)))
               /\ UNCHANGED <<cache, queries>>
          ELSE ToolStart(i, op, route)
  /\ UNCHANGED <<mainPc, current_access_mode, args_access_mode, pool,
                 releases, closeCalls, connectCalls, handlersInstalled>>

\* check_hypopg_installation_status answers: installed -> go on to
\* explain_with_hypothetical_indexes; not installed -> its message is the
\* response; an exception is re-raised and caught by the outer handler.
Reply_hypopg(i) ==
  /\ Alive
  /\ ops[i].pc = "await_hypopg"
  /\ \E reply \in Replies({"installed", "missing", "fail"}) :
       CASE reply = "installed" -> Suspend(i, ops[i], "await_explain")
         [] reply = "missing" ->
              Finish(i, Outcome(ops[i], "reply", FALSE, "return", None,
                                format_text_response(<<"hypopg_message">>)))
         [] reply = "fail" ->
              Finish(i, Outcome(ops[i], "reply", TRUE, "return", None, Caught))
  /\ UNCHANGED <<mainPc, current_access_mode, args_access_mode, pool,
                 releases, closeCalls, connectCalls, handlersInstalled,
                 dispatched, cache, queries, handles>>

\* The explain call answers an ExplainPlanArtifact, an ErrorResult, None,
\* or raises.
Reply_explain(i) ==
  /\ Alive
  /\ ops[i].pc = "await_explain"
  /\ \E reply \in Replies({"artifact", "error_result", "none", "fail"}) :
       Finish(i, Outcome(ops[i], "reply", reply # "artifact", "return", None,
                         CASE reply = "artifact" -> format_text_response(<<"plan text">>)
                           [] reply = "error_result" -> format_error_response(<<"error result text">>)
                           [] reply = "none" -> format_error_response(<<"Error processing explain plan">>)
                           [] reply = "fail" -> Caught))
  /\ UNCHANGED <<mainPc, current_access_mode, args_access_mode, pool,
                 releases, closeCalls, connectCalls, handlersInstalled,
                 dispatched, cache, queries, handles>>

\* analyze_workload(max_index_size_mb)
Call_analyze_workload(i) ==
  /\ CanStart(i)
  /\ dispatched' = dispatched + 1
  /\ ToolStart(i, [IdleOp EXCEPT !.tool = "analyze_workload"], "await_dta")
  /\ UNCHANGED <<mainPc, current_access_mode, args_access_mode, pool,
                 releases, closeCalls, connectCalls, handlersInstalled>>

\* The length tests of analyze_queries as they would be without the upper
\* one.
QueriesCheck_NoUpperBound(nq) == IF nq = 0 THEN "empty" ELSE "ok"

\* if len(queries) == 0: ...  if len(queries) > MAX_NUM_DTA_QUERIES_LIMIT: ...
QueriesCheck(nq) ==
  IF nq = 0 THEN "empty"
  ELSE IF nq > MAX_NUM_DTA_QUERIES_LIMIT THEN "too_many"
  ELSE "ok"

EmptyListText == <<"Please provide a non-empty list of queries to analyze.">>
TooManyText == <<"Please provide a list of up to ", MAX_NUM_DTA_QUERIES_LIMIT,
                 " queries to analyze.">>

\* analyze_queries(queries, max_index_size_mb): the two length tests come
\* before the driver is made.
Call_analyze_queries(i, nq) ==
  /\ CanStart(i)
  /\ dispatched' = dispatched + 1
  /\ LET op == [IdleOp EXCEPT !.tool = "analyze_queries", !.nq = nq]
         check == QueriesCheck(nq)
     IN IF check = "ok"
          THEN ToolStart(i, op, "await_dta")
          ELSE /\ Finish(i, Outcome(op, "validation", FALSE, "return", None,
                      format_error_response(IF check = "empty" THEN EmptyListText
                                            ELSE TooManyText)))
               /\ UNCHANGED <<cache, queries, handles>>
  /\ UNCHANGED <<mainPc, current_access_mode, args_access_mode, pool,
                 releases, closeCalls, connectCalls, handlersInstalled>>

\* DTATool answers a result, or raises; both tools catch and format.
Reply_dta(i) ==
  /\ Alive
  /\ ops[i].pc = "await_dta"
  /\ \E reply \in Replies({"result", "fail"}) :
       Finish(i, Outcome(ops[i], "reply", reply = "fail", "return", None,
                         IF reply = "result" THEN format_text_response(<<"dta result">>)
                         ELSE Caught))
  /\ UNCHANGED <<mainPc, current_access_mode, args_access_mode, pool,
                 releases, closeCalls, connectCalls, handlersInstalled,
                 dispatched, cache, queries, handles>>

\* database_health(health_type): no try/except around its body.
Call_database_health(i) ==
  /\ CanStart(i)
  /\ dispatched' = dispatched + 1
  /\ ToolStart(i, [IdleOp EXCEPT !.tool = "database_health"], "await_health")
  /\ UNCHANGED <<mainPc, current_access_mode, args_access_mode, pool,
                 releases, closeCalls, connectCalls, handlersInstalled>>

\* What database_health does with an exception of health_tool.health():
\* nothing catches it, so it leaves the coroutine.
HealthFailure(op) ==
  Outcome(op, "reply", TRUE, "raise", None, format_text_response(<<DbErrorMessage>>))

Reply_health(i) ==
  /\ Alive
  /\ ops[i].pc = "await_health"
  /\ \E reply \in Replies({"result", "fail"}) :
       Finish(i, IF reply = "result"
                   THEN Outcome(ops[i], "reply", FALSE, "return", None,
                                format_text_response(<<"health result">>))
                   ELSE HealthFailure(ops[i]))
  /\ UNCHANGED <<mainPc, current_access_mode, args_access_mode, pool,
                 releases, closeCalls, connectCalls, handlersInstalled,
                 dispatched, cache, queries, handles>>

\* --------------------------------------------------------- specifications
\* main() up to the end of serving.
NextMain ==
  \/ MainParse
  \/ MainConnect
  \/ MainSignals
  \/ ServeEnd

\* The steps of shutdown(), whoever called it.
NextShutdown ==
  \/ \E c \in Callers : ShutdownClose(c)
  \/ \E c \in Callers : ShutdownSnapshot(c)
  \/ \E c \in Callers : ShutdownGatherReturn(c)

\* Signals, and what asyncio.run does to their tasks at exit.
NextSignal ==
  \/ \E s \in SigIds : Signal(s)
  \/ \E s \in SigIds : ExitCancel(s)

\* Direct calls of get_from_context and the one tool that calls it.
NextContext ==
  \/ \E i \in OpIds, key \in KeyInputs : Call_get_from_context(i, key)
  \/ \E i \in OpIds, task \in TaskInputs : Call_get_analysis_plan(i, task)
  \/ \E i \in OpIds : Reply_metadata(i)

NextQuery ==
  \/ \E i \in OpIds : Call_query(i)
  \/ \E i \in OpIds : Reply_query(i)

NextExplain ==
  \/ \E i \in OpIds, analyze \in BOOLEAN, hypo \in HypotheticalIndexInputs :
        Call_explain_query(i, analyze, hypo)
  \/ \E i \in OpIds : Reply_hypopg(i)
  \/ \E i \in OpIds : Reply_explain(i)

\* The two tools of the index advisor.
NextDta ==
  \/ \E i \in OpIds : Call_analyze_workload(i)
  \/ \E i \in OpIds, nq \in NumQueriesInputs : Call_analyze_queries(i, nq)
  \/ \E i \in OpIds : Reply_dta(i)

NextHealth ==
  \/ \E i \in OpIds : Call_database_health(i)
  \/ \E i \in OpIds : Reply_health(i)

\* The tools that go to the database themselves.
NextTools ==
  \/ NextQuery
  \/ NextExplain
  \/ NextDta
  \/ NextHealth

\* The whole program.
Next == NextMain \/ NextShutdown \/ NextSignal \/ NextContext \/ NextTools

Spec == Init /\ [][Next]_vars

\* The whole program is too large to enumerate for every formula, so each
\* formula is checked under the part of it that its variables depend on.
\* The metadata cache: every caller of get_from_context, from start-up to
\* the shutdown() of a normal exit.
SpecContext == Init /\ [][NextMain \/ NextShutdown \/ NextContext]_vars

\* The tools whose call is one database operation (query, the index
\* advisor, database_health) together with get_analysis_plan and its
\* metadata fetch, from start-up to the shutdown() of a normal exit.
\* explain_query, with its inputs and its two round trips, has a
\* specification of its own.
SpecTools ==
  Init /\ [][NextMain \/ NextShutdown
             \/ (\E i \in OpIds, task \in TaskInputs : Call_get_analysis_plan(i, task))
             \/ (\E i \in OpIds : Reply_metadata(i))
             \/ NextQuery \/ NextDta \/ NextHealth]_vars

\* explain_query alone, from start-up to the shutdown() of a normal exit.
SpecExplain == Init /\ [][NextMain \/ NextShutdown \/ NextExplain]_vars

\* The index advisor alone, from start-up to the shutdown() of a normal exit.
SpecDta == Init /\ [][NextMain \/ NextShutdown \/ NextDta]_vars

\* Shutdown: signals at any moment, with query calls as the work in flight.
NextLifecycle == NextSignal \/ NextShutdown \/ NextMain \/ NextQuery

SpecShutdown == Init /\ [][NextLifecycle]_vars

\* The event loop runs every task that is ready, so each step of a
\* shutdown() that can be taken is taken; the database is assumed to answer
\* every query in flight.  Signals, requests and the end of the transport
\* come from outside and are promised by nothing.
FairShutdown ==
  /\ SpecShutdown
  /\ \A c \in Callers : WF_vars(ShutdownClose(c))
  /\ \A c \in Callers : WF_vars(ShutdownSnapshot(c))
  /\ \A c \in Callers : WF_vars(ShutdownGatherReturn(c))
  /\ \A s \in SigIds : WF_vars(ExitCancel(s))
  /\ \A i \in OpIds : WF_vars(Reply_query(i))

\* ------------------------------------------------------------------ claims
\* Invocation c of shutdown() has awaited db_connection.close().
PastClose(c) == sh[c].pc \in {"snapshot", "gather", "done", "cancelled"}

\* Slots whose coroutine waits for the reply to the metadata query of key k.
Fetching(k) == {i \in OpIds : ops[i].pc = "await_query" /\ ops[i].key = k}

\* C1: concurrent misses on one key share a single metadata query: at no
\* time are two requests each waiting for their own query of the same key.
C1_SingleFlight ==
  \A k \in DOMAIN PG_METADATA_QUERIES : Cardinality(Fetching(k)) <= 1

\* C2: the pool is not closed while an operation that was in flight when
\* the shutdown was triggered is still running: once an invocation of
\* shutdown() has called close(), none of those operations is unfinished.
C2_DrainBeforeClose ==
  \A c \in Callers : PastClose(c) => sh[c].pending = {}

\* C3: every invocation of shutdown() that starts comes to its end.
C3_ShutdownEnds ==
  \A c \in Callers : (sh[c].pc = "close") ~> (sh[c].pc \in {"done", "cancelled"})

\* C4: whatever the shutdown triggers, the pool is released at most once,
\* and exactly once if it was ever connected: as soon as one invocation of
\* shutdown() is past its close() the pool is no longer live, a pool that
\* was connected counts one release, one that never was counts none, and
\* every further close() leaves that as it is.
C4_ReleasedOnce ==
  /\ releases <= 1
  /\ (releases = 1) <=> (pool = "Closed")
  /\ \A c \in Callers : PastClose(c) => pool # "Connected"

\* C4 happens: a signal's shutdown and the one of main's finally have both
\* closed a pool that was connected.
C4_Witness ==
  /\ PastClose(FinallyCall)
  /\ \E s \in SigIds : PastClose(s)
  /\ closeCalls >= 2
  /\ releases = 1

\* The tools registered with @mcp.tool.
RegisteredTools == {"get_analysis_plan", "explain_query", "query",
                    "analyze_workload", "analyze_queries", "database_health"}

\* The tools whose own body runs a database operation (get_analysis_plan
\* only consults the metadata cache, which absorbs a failure itself).
DbTools == RegisteredTools \ {"get_analysis_plan"}

\* The tool call that finished last answered a text beginning "Error: ".
AnsweredError == last.kind = "return" /\ IsErrorResponse(last.resp)

\* C5: whenever the operation under a registered tool fails, the call
\* returns a response that begins with the error marker "Error: "; no
\* exception leaves the tool.
C5_FailureBecomesErrorResponse ==
  (last.tool \in DbTools /\ last.failure) => AnsweredError

\* A driver as the access mode asks for it: in restricted mode the
\* validating SafeSqlDriver with a timeout of 30, otherwise the raw SqlDriver.
FitsMode(d) ==
  IF current_access_mode = RESTRICTED
    THEN d.class = "SafeSqlDriver" /\ d.timeout = 30
    ELSE d.class = "SqlDriver"

\* C6: every driver get_sql_driver has handed out, and the driver of every
\* call that has a statement at the database, is the one the access mode
\* asks for.
C6_ModeConsistentHandles ==
  /\ \A n \in 1..Len(handles) : FitsMode(handles[n])
  /\ \A i \in InFlight : FitsMode(ops[i].sql_driver)

\* C6 happens: in restricted mode a metadata fetch and a tool's own
\* operation are at the database together.
C6_Witness ==
  /\ current_access_mode = RESTRICTED
  /\ Len(handles) >= 2
  /\ \E i, j \in InFlight :
       /\ ops[i].pc = "await_query"
       /\ ops[j].tool \in DbTools

\* C7: after a failed pool_connect the server still serves, and every call
\* of a tool that goes to the database returns a response that begins with
\* the error marker.
C7_DegradedStartAnswersErrors ==
  (/\ mainPc \in {"serving", "shutdown", "done"}
   /\ pool = "Disconnected"
   /\ last.tool \in DbTools
   /\ last.path = "reply") => AnsweredError

\* A call of get_from_context for key k starts in slot i: a direct one, or
\* the one get_analysis_plan makes for the extensions.
GetFromContext(i, k) ==
  \/ Call_get_from_context(i, k)
  \/ k = "extensions" /\ Call_get_analysis_plan(i, "slow queries")

CacheInputs ==
  UNION {[D -> {None, ListOf(<<[name |-> "x"]>>)}] : D \in SUBSET KeyInputs}

UnrecognizedInputs == KeyInputs \ DOMAIN PG_METADATA_QUERIES

\* C9: with a key that has no metadata query, get_from_context raises the
\* unknown-key error whatever the cache holds (an entry under that very key
\* included), sends no query, makes no driver and leaves the cache alone.
C9_UnknownKeyFails ==
  /\ [](\A k \in UnrecognizedInputs, c \in CacheInputs : ContextPath(c, k) = "raise")
  /\ [][\A i \in OpIds, k \in UnrecognizedInputs :
          Call_get_from_context(i, k) =>
            /\ last'.kind = "raise"
            /\ last'.resp = format_text_response(UnknownKeyError(k))
            /\ cache' = cache
            /\ queries' = queries
            /\ handles' = handles
            /\ ops' = ops]_vars

\* C9 happens: a call with an unrecognized key was refused while the cache
\* held an entry.
C9_Witness ==
  /\ last.tool = "get_from_context"
  /\ last.key = "unknown-key"
  /\ last.kind = "raise"
  /\ DOMAIN cache # {}

\* C10: when the metadata query fails, get_from_context returns None, raises
\* nothing and stores nothing, so a key without an entry still has none;
\* and a get_from_context for a key without an entry sends the query.
C10_FailedFetchNotCached ==
  /\ [][\A i \in OpIds :
          (Reply_metadata(i) /\ last'.failure) =>
            /\ last'.kind = "return"
            /\ last'.value = None
            /\ cache' = cache]_vars
  /\ [][\A i \in OpIds, k \in DOMAIN PG_METADATA_QUERIES :
          (GetFromContext(i, k) /\ k \notin DOMAIN cache) =>
            /\ queries' = [queries EXCEPT ![k] = @ + 1]
            /\ ops'[i].pc = "await_query"]_vars

\* C10 happens: the query of one key has been sent three times, more often
\* than calls can be in flight together, the one that finished last failed
\* and the key still has no entry: a call that came after a failed fetch
\* sent the query again.
C10_Witness ==
  /\ pool = "Connected"
  /\ last.tool = "get_from_context"
  /\ last.failure
  /\ last.key \notin DOMAIN cache
  /\ queries[last.key] = 3
  /\ MaxOps < 3

\* A statement of slot i is at the database.
AtDatabase(i) == ops[i].pc \in {"await_query", "await_execute", "await_hypopg",
                                "await_explain", "await_dta", "await_health"}

\* C11: explain_query with analyze=True and a list of hypothetical indexes
\* returns the error response of the refusal and sends no statement: the
\* call is over in the step that started it, so neither the hypopg check
\* nor either explain is ever awaited, and no other call's state changes.
C11_AnalyzeWithHypoRefused ==
  /\ [](\A h \in HypotheticalIndexInputs :
          ~Falsy(h) => ExplainRoute(TRUE, h) = "refuse")
  /\ [][\A i \in OpIds, h \in HypotheticalIndexInputs :
          (Call_explain_query(i, TRUE, h) /\ ~Falsy(h)) =>
            /\ last'.kind = "return"
            /\ last'.resp = format_error_response(<<RefusalText>>)
            /\ IsErrorResponse(last'.resp)
            /\ ~AtDatabase(i)'
            /\ ops' = ops]_vars

\* C11 happens: with the pool connected, the last call was an explain_query
\* with analyze and hypothetical indexes, and it was refused.
C11_Witness ==
  /\ pool = "Connected"
  /\ last.tool = "explain_query"
  /\ last.analyze
  /\ ~Falsy(last.hypo)
  /\ last.path = "validation"
  /\ IsErrorResponse(last.resp)

\* Lengths the argument contract of analyze_queries excludes.
OutOfContract == {nq \in NumQueriesInputs : nq = 0 \/ nq > MAX_NUM_DTA_QUERIES_LIMIT}

\* The text naming the bound a length violates.
BoundText(nq) == IF nq = 0 THEN EmptyListText ELSE TooManyText

\* C12: analyze_queries with an empty list or with more than
\* MAX_NUM_DTA_QUERIES_LIMIT queries returns the error response that names
\* the violated bound, makes no driver and does not start the analysis; a
\* list within the bounds, the limit itself included, goes on to the
\* analysis.
C12_LengthCheckedFirst ==
  /\ [][\A i \in OpIds, nq \in OutOfContract :
          Call_analyze_queries(i, nq) =>
            /\ last'.kind = "return"
            /\ last'.resp = format_error_response(BoundText(nq))
            /\ IsErrorResponse(last'.resp)
            /\ handles' = handles
            /\ ~AtDatabase(i)'
            /\ ops' = ops]_vars
  /\ [][\A i \in OpIds, nq \in NumQueriesInputs \ OutOfContract :
          Call_analyze_queries(i, nq) =>
            /\ ops'[i].pc = "await_dta"
            /\ Len(handles') = Len(handles) + 1]_vars

\* C12 happens: with the pool connected, an analyze_queries with one query
\* more than the limit was refused and no driver has been made so far.
C12_Witness ==
  /\ pool = "Connected"
  /\ last.tool = "analyze_queries"
  /\ last.nq = MAX_NUM_DTA_QUERIES_LIMIT + 1
  /\ last.resp = format_error_response(TooManyText)
  /\ handles = <<>>

\* C13: once main() has parsed its arguments, current_access_mode is the
\* mode the --access-mode flag named, in every state up to the exit of the
\* process; and all the drivers made so far, by the tools and by the
\* metadata fetch, are the same kind of driver, the one get_sql_driver
\* makes for that mode.
C13_ModeSetOnce ==
  mainPc # "parse" =>
    /\ args_access_mode \in AccessModeChoices
    /\ current_access_mode \in AccessMode
    /\ (current_access_mode = RESTRICTED) <=> (args_access_mode = "restricted")
    /\ \A n, m \in 1..Len(handles) : handles[n] = handles[m]
    /\ \A n \in 1..Len(handles) :
          (handles[n].class = "SafeSqlDriver") <=> (args_access_mode = "restricted")
    /\ \A i \in OpIds :
          AtDatabase(i) =>
            ((ops[i].sql_driver.class = "SafeSqlDriver") <=> (args_access_mode = "restricted"))

\* C13 happens: started with --access-mode restricted, the process has
\* served a metadata fetch and other tools, three drivers have been made
\* and shutdown has begun.
C13_Witness ==
  /\ args_access_mode = "restricted"
  /\ mainPc = "shutdown"
  /\ Len(handles) >= 3
  /\ queries["extensions"] >= 1
  /\ last.tool \in DbTools

\* C14: an entry of the cache is written once: from one state to the next,
\* every key the cache holds is still there with the value it had, however
\* the calls of get_from_context interleave.
C14_WriteOnce ==
  [][\A k \in DOMAIN cache : k \in DOMAIN cache' /\ cache'[k] = cache[k]]_vars

\* The place of a pool state in Disconnected -> Connected -> Closed.
PoolRank(p) == CASE p = "Disconnected" -> 0 [] p = "Connected" -> 1 [] p = "Closed" -> 2

\* C15: the pool only moves forward through Disconnected, Connected,
\* Closed: pool_connect is awaited at most once, never once a close() has
\* been awaited, and a closed pool stays closed, whatever signals arrive.
C15_PoolMonotonic ==
  /\ [](connectCalls <= 1)
  /\ [](pool = "Connected" => connectCalls = 1)
  /\ [][PoolRank(pool') >= PoolRank(pool)]_vars
  /\ [][connectCalls' # connectCalls => (closeCalls = 0 /\ pool = "Disconnected")]_vars
  /\ [][pool = "Closed" => pool' = "Closed"]_vars

\* C15 happens: the pool was connected once, two invocations of shutdown(),
\* one of them a signal's, have awaited close(), and a query that was
\* answered after that failed on the closed pool.
C15_Witness ==
  /\ pool = "Closed"
  /\ connectCalls = 1
  /\ closeCalls >= 2
  /\ \E s \in SigIds : PastClose(s)
  /\ last.tool = "query"
  /\ last.failure

\* C16: an invocation of shutdown() that is waiting for the other tasks
\* does not end by raising: whatever reaches it there is caught, so from
\* the wait it can only go on to its last line and return.
C16_ShutdownNeverRaises ==
  [][\A c \in Callers :
       sh[c].pc = "gather" => sh'[c].pc \in {"gather", "done"}]_vars

UnsupportedText(task) == <<"'", task, "' is not supported by this tool">>

\* C17: get_analysis_plan with a task other than "slow queries" returns
\* the error response that names the task as not supported, in the step
\* that started it: the cache is neither read into the answer nor changed,
\* no driver is made and no query is sent.
C17_UnsupportedTaskRefused ==
  [][\A i \in OpIds, task \in TaskInputs \ {"slow queries"} :
       Call_get_analysis_plan(i, task) =>
         /\ last'.kind = "return"
         /\ last'.resp = format_error_response(UnsupportedText(task))
         /\ IsErrorResponse(last'.resp)
         /\ last'.value = None
         /\ cache' = cache
         /\ queries' = queries
         /\ handles' = handles
         /\ ops' = ops]_vars

\* C17 happens: with the pool connected and nothing fetched so far, the
\* last call was a get_analysis_plan for "Slow Queries", refused by name.
C17_Witness ==
  /\ pool = "Connected"
  /\ last.tool = "get_analysis_plan"
  /\ last.task = "Slow Queries"
  /\ last.resp = format_error_response(UnsupportedText("Slow Queries"))
  /\ queries["extensions"] = 0
  /\ "extensions" \notin DOMAIN cache
  /\ handles = <<>>

\* The keys the docstring of get_from_context names.
DocumentedKeys == {"version", "extensions", "settings"}

\* C18: get_from_context accepts each of the keys version, extensions and
\* settings: a call with one of them does not end in the unknown-key error.
C18_ThreeKeysRecognized ==
  (last.tool = "get_from_context" /\ last.key \in DocumentedKeys) =>
    last.kind # "raise"

\* Invocation c of shutdown() sits in its gather and one of the tasks it
\* waits for is the task that runs invocation d.
WaitsFor(c, d) == sh[c].pc = "gather" /\ TaskOf(d) \in sh[c].waits

\* C19: no two invocations of shutdown() wait for each other: never does
\* one wait for the task that runs the other while the other waits for
\* the task that runs the first.
C19_NoMutualWait ==
  \A c, d \in Callers : ~(c # d /\ WaitsFor(c, d) /\ WaitsFor(d, c))

\* The extensions metadata lists an extension of that name: it is a list
\* and one of its rows has the name in its name field.
HasExtension(value, name) ==
  /\ value.tag = "list"
  /\ \E n \in 1..Len(value.cells) : value.cells[n].name = name

\* The steps of the plan a response carries.
StepsOf(resp) == {resp[1].text[n] : n \in 1..Len(resp[1].text)}

\* C20: the plan get_analysis_plan returns for "slow queries" has the step
\* that installs pg_stat_statements exactly when the extensions metadata
\* it worked from does not list pg_stat_statements.
C20_InstallStepIffMissing ==
  (/\ last.tool = "get_analysis_plan"
   /\ last.task = "slow queries"
   /\ last.kind = "return") =>
    ((InstallStep \in StepsOf(last.resp)) <=>
       ~HasExtension(last.value, PG_STAT_STATEMENTS))

====
